---- MODULE Spec2Model ----
(***************************************************************************)
(* The record store of hotel-support-next: server/bookings.ts and          *)
(* server/support-requests.ts.  Every exported function is an async        *)
(* function; the JavaScript event loop runs one continuation at a time, so *)
(* a call is modelled as a task whose steps are the stretches of code      *)
(* between two awaited file-system calls.                                   *)
(***************************************************************************)
EXTENDS Integers, Sequences, FiniteSets, TLC

\* ---------------------------------------------------------------- bounds
NumProcs == 2       \* concurrent request-handling tasks
MaxCalls == 2       \* store calls started in one run
MaxClock == 1       \* distinct later readings of the wall clock

Procs == 1..NumProcs

VARIABLES
    bFile,          \* data/bookings.json: [st, data, len]
    bWritable,      \* the medium accepts writes to data/bookings.json
    bLoc,           \* per task: the local array `bookings` / `normalized` / `filtered`
    sFile,          \* support-requests.json: [st, data, len]
    sWritable,      \* the medium accepts writes to support-requests.json
    heap,           \* the arrays of support requests reachable from the module or a task
    inMemoryStore,  \* the module variable: a reference into heap
    sLoc,           \* per task: the local reference `requests` (NoRef: none)
    sBuf,           \* per task: JSON.stringify(requests), taken when fs.writeFile is called
    pc,             \* per task: the await it is suspended at
    cur,            \* per task: the index in calls of the call it runs (0: idle)
    calls,          \* every call started so far, in arrival order, with its result
    nextId,         \* ids handed out so far by randomUUID
    now,            \* the last reading of new Date()
    warned,         \* console.warn calls so far: [write, read]
    init            \* the files the run started from: [b, s]

vars == <<bFile, bWritable, bLoc, sFile, sWritable, heap, inMemoryStore, sLoc, sBuf,
          pc, cur, calls, nextId, now, warned, init>>

bVars == <<bFile, bWritable, bLoc>>
sVars == <<sFile, sWritable, heap, inMemoryStore, sLoc, sBuf>>

\* ------------------------------------------------------------ file system
\* JSON.stringify(records, null, 2).length: the ids and the ISO timestamps
\* have a fixed width, the status and the outcome make the difference.
StatusWidth ==
    [pending |-> 7, confirmed |-> 9, checked_in |-> 10, checked_out |-> 11,
     cancelled |-> 9, resolved |-> 8, closed |-> 6]

recordSize(r) ==
    100 + StatusWidth[r.status]
        + (IF "outcome" \in DOMAIN r /\ r.outcome # <<>> THEN 60 ELSE 0)

RECURSIVE jsonSize(_)
jsonSize(d) == IF d = <<>> THEN 2 ELSE recordSize(Head(d)) + jsonSize(Tail(d))

\* A file is missing, holds one complete JSON document (ok), or holds bytes
\* JSON.parse rejects (torn: empty after O_TRUNC, or a document followed by
\* the tail of a longer one).  len is the byte length of the file.
NoFile == [st |-> "missing", data |-> <<>>, len |-> 0]
OkFile(d) == [st |-> "ok", data |-> d, len |-> jsonSize(d)]
TornFile(n) == [st |-> "torn", data |-> <<>>, len |-> n]

\* fs.writeFile opens the path with flag 'w': the file is created or truncated.
fsOpenTrunc == TornFile(0)

\* fs.writeFile then writes the document at offset 0 of its descriptor and
\* closes it.  When another descriptor has written since this one was opened,
\* the bytes beyond the new document stay in the file.
fsWrite(f, d) == IF jsonSize(d) >= f.len THEN OkFile(d) ELSE TornFile(f.len)

\* new Date(): a reading never lies before an earlier one.
ClockReadings == {now} \cup (IF now < MaxClock THEN {now + 1} ELSE {})

\* ---------------------------------------------------------------- strings
\* A string is the sequence of its characters.
lowerChar(ch) ==
    CASE ch = "A" -> "a"
      [] ch = "B" -> "b"
      [] ch = "Q" -> "q"
      [] ch = "Z" -> "z"
      [] OTHER -> ch

\* String.prototype.toLowerCase
toLowerCase(str) == [i \in 1..Len(str) |-> lowerChar(str[i])]

\* String.prototype.trim
RECURSIVE trimStart(_)
trimStart(str) ==
    IF str # <<>> /\ Head(str) = " " THEN trimStart(Tail(str)) ELSE str

RECURSIVE trimEnd(_)
trimEnd(str) ==
    IF str # <<>> /\ str[Len(str)] = " "
    THEN trimEnd(SubSeq(str, 1, Len(str) - 1))
    ELSE str

trim(str) == trimEnd(trimStart(str))

\* String.prototype.includes
includes(str, search) ==
    \E i \in 0..(Len(str) - Len(search)) :
        SubSeq(str, i + 1, i + Len(search)) = search

\* new Date().toISOString().slice(0, 10): the date of a clock reading; the
\* readings here lie on consecutive days.  Dates compare as their strings do.
isoDate(t) == t

\* ------------------------------------------------------------- bookings
BookingStatus == {"pending", "confirmed", "checked_in", "checked_out", "cancelled"}

\* data/bookings.seed.json: one record with timestamps, one without.
seedBookingsData ==
    << [id |-> 1, confirmationCode |-> <<"A", "1">>, guestName |-> <<"A", "b">>,
        status |-> "confirmed", checkIn |-> 0, checkOut |-> 1,
        createdAt |-> 0, updatedAt |-> 0],
       [id |-> 2, confirmationCode |-> <<"Q", "2">>, guestName |-> <<"B", "a">>,
        status |-> "pending", checkIn |-> 0, checkOut |-> 0] >>

\* seedBookings, lines 201-206: stamp the records that carry no timestamp.
normalized(t) ==
    [i \in 1..Len(seedBookingsData) |->
        LET b == seedBookingsData[i] IN
        [f \in DOMAIN b \cup {"createdAt", "updatedAt"} |->
            IF f \in DOMAIN b THEN b[f] ELSE t]]

\* The payloads and updates the callers are given here.
NoStatus == "none"
CreatePayloads ==
    { [guestName |-> <<" ", "a", "B">>, checkIn |-> 1, checkOut |-> 2, status |-> st] :
        st \in {NoStatus, "confirmed"} }

\* generateConfirmationCode, lines 74-79: characters of A-Z0-9 drawn at random; the
\* code of a stored booking can come out again.
ConfirmationCodes == {<<"A", "1">>, <<"Z", "9">>}

\* The bodies of PUT /api/bookings: the "updates" object as the client sent it.
RawUpdates ==
    { [status |-> "cancelled"],
      [status |-> "cancelled", id |-> 2, confirmationCode |-> <<"Z", "9">>, createdAt |-> 1],
      [id |-> 2] }

\* updateSchema, route.ts lines 24-42: z.object keeps the keys it declares and
\* strips the others; of the declared keys the records here carry status.
UpdateKeys == {"status"}

\* (not the code) a schema that lets every key of the body through
updatePassthrough(raw) == raw
updateSchema(raw) == [f \in DOMAIN raw \cap UpdateKeys |-> raw[f]]

\* .refine(data => Object.keys(data).length > 0)
refine(updates) == DOMAIN updates # {}

UpdateInputs == {updateSchema(raw) : raw \in {r \in RawUpdates : refine(updateSchema(r))}}

\* (not the code) a generator that hands out the id of a stored booking
buildBookingStaleId(payload, id, code, t) ==
    [id |-> 1,
     confirmationCode |-> code,
     guestName |-> trim(payload.guestName),
     status |-> IF payload.status = NoStatus THEN "pending" ELSE payload.status,
     checkIn |-> payload.checkIn,
     checkOut |-> payload.checkOut,
     createdAt |-> t,
     updatedAt |-> t]

\* (not the code) a builder that ignores the status of the payload
buildBookingPending(payload, id, code, t) ==
    [id |-> id,
     confirmationCode |-> code,
     guestName |-> trim(payload.guestName),
     status |-> "pending",
     checkIn |-> payload.checkIn,
     checkOut |-> payload.checkOut,
     createdAt |-> t,
     updatedAt |-> t]

buildBooking(payload, id, code, t) ==
    [id |-> id,
     confirmationCode |-> code,
     guestName |-> trim(payload.guestName),
     status |-> IF payload.status = NoStatus THEN "pending" ELSE payload.status,
     checkIn |-> payload.checkIn,
     checkOut |-> payload.checkOut,
     createdAt |-> t,
     updatedAt |-> t]

\* (not the code) an index that lands on the last record when none matches
findIndexOrLast(s, id) ==
    IF \E i \in 1..Len(s) : s[i].id = id
    THEN CHOOSE i \in 1..Len(s) : s[i].id = id
    ELSE Len(s)

\* bookings.findIndex(b => b.id === id): 0 when absent.
findIndex(s, id) ==
    IF \E i \in 1..Len(s) : s[i].id = id
    THEN CHOOSE i \in 1..Len(s) : s[i].id = id /\ \A j \in 1..(i - 1) : s[j].id # id
    ELSE 0

\* (not the code) a merge that stamps the booking and drops the updates
mergeBookingStampOnly(b, updates, t) ==
    [f \in DOMAIN b |-> IF f = "updatedAt" THEN t ELSE b[f]]

\* { ...bookings[index], ...updates, updatedAt: now }
mergeBooking(b, updates, t) ==
    [f \in DOMAIN b |->
        IF f = "updatedAt" THEN t
        ELSE IF f \in DOMAIN updates THEN updates[f]
        ELSE b[f]]

\* (not the code) a filter whose predicate does not look at the id
filterOutFirst(s, id) == IF s = <<>> THEN <<>> ELSE Tail(s)

\* (not the code) a filter that hands the records back in reverse order
RECURSIVE filterOutReversed(_, _)
filterOutReversed(s, id) ==
    IF s = <<>> THEN <<>>
    ELSE filterOutReversed(Tail(s), id)
            \o (IF Head(s).id = id THEN <<>> ELSE <<Head(s)>>)

\* bookings.filter(b => b.id !== id)
RECURSIVE filterOut(_, _)
filterOut(s, id) ==
    IF s = <<>> THEN <<>>
    ELSE IF Head(s).id = id THEN filterOut(Tail(s), id)
    ELSE <<Head(s)>> \o filterOut(Tail(s), id)

\* normalizeName, lines 70-72
normalizeName(value) == toLowerCase(trim(value))

\* if (filters.confirmationCode) / if (filters.guestName): the key is there
\* and its string is not empty
given(filters, key) == key \in DOMAIN filters /\ filters[key] # <<>>

\* (not the code) a callback that compares the confirmation codes as they are
keepsExactCode(booking, filters, today) ==
    /\ "status" \in DOMAIN filters => booking.status \in filters.status
    /\ given(filters, "confirmationCode") =>
          booking.confirmationCode = filters.confirmationCode
    /\ given(filters, "guestName") =>
          includes(normalizeName(booking.guestName), normalizeName(filters.guestName))
    /\ ("upcomingOnly" \in DOMAIN filters /\ filters.upcomingOnly) =>
          ~(booking.checkOut < today)

\* getBookings, lines 107-141: the callback of bookings.filter.  filters.status
\* is the set of the statuses asked for (a single status is the set of it).
keeps(booking, filters, today) ==
    /\ "status" \in DOMAIN filters => booking.status \in filters.status
    /\ given(filters, "confirmationCode") =>
          toLowerCase(booking.confirmationCode) = toLowerCase(filters.confirmationCode)
    /\ given(filters, "guestName") =>
          includes(normalizeName(booking.guestName), normalizeName(filters.guestName))
    /\ ("upcomingOnly" \in DOMAIN filters /\ filters.upcomingOnly) =>
          ~(booking.checkOut < today)

\* Array.prototype.filter with that callback
RECURSIVE filterBookings(_, _, _)
filterBookings(bookings, filters, today) ==
    IF bookings = <<>> THEN <<>>
    ELSE (IF keeps(Head(bookings), filters, today) THEN <<Head(bookings)>> ELSE <<>>)
            \o filterBookings(Tail(bookings), filters, today)

\* getBookingById, line 148: bookings.find(b => b.id === id) ?? null; the value
\* is <<the booking>>, or <<>> for null
findById(records, id) ==
    IF findIndex(records, id) = 0 THEN <<>> ELSE <<records[findIndex(records, id)]>>

\* getBookingByConfirmation, lines 155-160
findByConfirmation(bookings, confirmationCode) ==
    LET normalizedCode == toLowerCase(trim(confirmationCode))
        hits == {i \in 1..Len(bookings) :
                    toLowerCase(bookings[i].confirmationCode) = normalizedCode}
    IN
    IF hits = {} THEN <<>>
    ELSE <<bookings[CHOOSE i \in hits : \A j \in hits : i <= j]>>

\* (not the code) a reduce that leaves the cancelled bookings out of the total
RECURSIVE reduceActive(_, _, _)
reduceActive(acc, bookings, today) ==
    IF bookings = <<>> THEN acc
    ELSE LET booking == Head(bookings)
             counted == [acc EXCEPT !.total = @ + (IF booking.status = "cancelled" THEN 0 ELSE 1),
                                    ![booking.status] = @ + 1]
         IN reduceActive(
                IF booking.status = "confirmed" /\ booking.checkIn >= today
                THEN [counted EXCEPT !.upcoming = @ + 1] ELSE counted,
                Tail(bookings), today)

bookingStatsActive(bookings, today) ==
    reduceActive([total |-> 0, pending |-> 0, confirmed |-> 0, checked_in |-> 0,
                  checked_out |-> 0, cancelled |-> 0, upcoming |-> 0],
                 bookings, today)

\* getBookingStats, lines 225-231: the callback of bookings.reduce, applied
\* to the bookings from the first to the last
RECURSIVE reduceBookings(_, _, _)
reduceBookings(acc, bookings, today) ==
    IF bookings = <<>> THEN acc
    ELSE LET booking == Head(bookings)
             counted == [acc EXCEPT !.total = @ + 1, ![booking.status] = @ + 1]
         IN reduceBookings(
                IF booking.status = "confirmed" /\ booking.checkIn >= today
                THEN [counted EXCEPT !.upcoming = @ + 1] ELSE counted,
                Tail(bookings), today)

\* getBookingStats, lines 225-245: the reduce from the initial summary
bookingStats(bookings, today) ==
    reduceBookings([total |-> 0, pending |-> 0, confirmed |-> 0, checked_in |-> 0,
                    checked_out |-> 0, cancelled |-> 0, upcoming |-> 0],
                   bookings, today)

\* getSupportRequestStats, lines 217-221: the callback of requests.reduce
RECURSIVE reduceRequests(_, _)
reduceRequests(acc, requests) ==
    IF requests = <<>> THEN acc
    ELSE reduceRequests([acc EXCEPT !.total = @ + 1, ![Head(requests).status] = @ + 1],
                        Tail(requests))

\* getSupportRequestStats, lines 215-228
supportStats(requests) ==
    reduceRequests([total |-> 0, pending |-> 0, resolved |-> 0, closed |-> 0], requests)

\* ---------------------------------------------------------------- calls
BookingLookups == {"getBookingById", "getBookingByConfirmation", "getBookingStats"}
SupportLookups == {"getSupportRequestById", "getSupportRequestStats"}

BookingMutations == {"createBooking", "updateBooking", "deleteBooking", "seedBookings"}
BookingReads == {"getBookings"}
BookingKinds == BookingMutations \cup BookingReads \cup BookingLookups

NoTitle == "none"
NoArg == [status |-> NoStatus, title |-> NoTitle]

\* A call as it arrives: st is "run" until it returns ("ok") or throws (the
\* error's name); val is the value returned, n the count returned by seed;
\* alone tells that no other call was running when this one arrived, fallback
\* that a write of support-requests.json had failed before it arrived, found
\* that the file of its collection existed when it arrived.
NewCall(p, kind, id, arg) ==
    [proc |-> p, kind |-> kind, id |-> id, arg |-> arg,
     st |-> "run", val |-> <<>>, n |-> 0,
     alone |-> \A q \in Procs : pc[q] = "idle",
     fallback |-> warned.write > 0,
     found |-> IF kind \in BookingKinds THEN bFile.st # "missing" ELSE sFile.st # "missing"]

\* the ids a caller may name: a record of the initial snapshot, and the first
\* id randomUUID hands out (no record has it until a create has run)
FirstNewId == 4
BookingTargets == {1, FirstNewId}
SupportTargets == {3, FirstNewId}

\* The tasks are interchangeable: an arriving call takes the first idle one.
CanStart(p) ==
    /\ pc[p] = "idle"
    /\ \A q \in Procs : q < p => pc[q] # "idle"
    /\ Len(calls) < MaxCalls

Start(p, c, at) ==
    /\ calls' = Append(calls, c)
    /\ cur' = [cur EXCEPT ![p] = Len(calls) + 1]
    /\ pc' = [pc EXCEPT ![p] = at]

\* the call of task p returns (st = "ok") or throws (st names the error)
Return(p, st, val, n) ==
    /\ calls' = [calls EXCEPT ![cur[p]].st = st, ![cur[p]].val = val, ![cur[p]].n = n]
    /\ cur' = [cur EXCEPT ![p] = 0]
    /\ pc' = [pc EXCEPT ![p] = "idle"]

Goto(p, at) ==
    /\ pc' = [pc EXCEPT ![p] = at]
    /\ UNCHANGED <<cur, calls>>

Kind(p) == calls[cur[p]].kind

\* ------------------------------------------------- bookings: the calls
\* createBooking, updateBooking, deleteBooking, getBookings: each starts with
\* readBookings -> ensureStore -> await fs.access(DATA_PATH).
CallBooking(p) ==
    /\ CanStart(p)
    /\ \E c \in
            {NewCall(p, "createBooking", 0, a) : a \in CreatePayloads}
            \cup {NewCall(p, "updateBooking", i, a) :
                    i \in BookingTargets, a \in UpdateInputs}
            \cup {NewCall(p, "deleteBooking", i, NoArg) : i \in BookingTargets}
            \cup {NewCall(p, "getBookings", 0, NoArg)} :
          Start(p, c, "b_access")
    /\ UNCHANGED <<bVars, sVars, nextId, now, warned, init>>

\* The filters of GET /api/bookings and of the callers of getBookings.
BookingFilterInputs ==
    { [status |-> {"confirmed"}, upcomingOnly |-> TRUE],
      [status |-> {}],
      [status |-> {"confirmed", "pending"}, guestName |-> <<"a", "B">>],
      [confirmationCode |-> <<"a", "1">>],
      [confirmationCode |-> <<" ", "a", "1">>],
      [confirmationCode |-> <<>>, upcomingOnly |-> FALSE],
      [guestName |-> <<" ", "B">>],
      [guestName |-> <<" ">>, upcomingOnly |-> TRUE] }

\* The codes getBookingByConfirmation is given.
CodeInputs == {<<"a", "1">>, <<" ", "a", "1">>, <<"Z", "9">>, <<>>}

\* getBookings(filters), getBookingById, getBookingByConfirmation and
\* getBookingStats: each starts with readBookings.  The code given to
\* getBookingByConfirmation travels in the key confirmationCode of arg, the
\* filters in the key filters (a getBookings without filters has neither).
CallBookingRead(p) ==
    /\ CanStart(p)
    /\ \E c \in
            {NewCall(p, "getBookings", 0, NoArg)}
            \cup {NewCall(p, "getBookings", 0, [filters |-> f]) : f \in BookingFilterInputs}
            \cup {NewCall(p, "getBookingById", i, NoArg) : i \in BookingTargets}
            \cup {NewCall(p, "getBookingByConfirmation", 0, [confirmationCode |-> code]) :
                    code \in CodeInputs}
            \cup {NewCall(p, "getBookingStats", 0, NoArg)} :
          Start(p, c, "b_access")
    /\ UNCHANGED <<bVars, sVars, nextId, now, warned, init>>

\* seedBookings, lines 200-207: the records are stamped, then writeBookings
\* calls fs.writeFile.
CallSeedBookings(p) ==
    /\ CanStart(p)
    /\ \E t \in ClockReadings :
          /\ now' = t
          /\ bLoc' = [bLoc EXCEPT ![p] = normalized(t)]
    /\ Start(p, NewCall(p, "seedBookings", 0, NoArg), "b_wOpen")
    /\ UNCHANGED <<bFile, bWritable, sVars, nextId, warned, init>>

\* (not the code) an ensureStore that seeds the file whether it exists or not
ensureStoreReseed(p) ==
    /\ pc[p] = "b_access"
    /\ \E t \in ClockReadings :
          /\ now' = t
          /\ bLoc' = [bLoc EXCEPT ![p] = normalized(t)]
    /\ Goto(p, "b_seedOpen")
    /\ UNCHANGED <<bFile, bWritable, sVars, nextId, warned, init>>

\* ensureStore, lines 52-58: fs.access; a missing file is seeded.
ensureStore(p) ==
    /\ pc[p] = "b_access"
    /\ IF bFile.st # "missing"
       THEN /\ Goto(p, "b_read")
            /\ UNCHANGED <<bLoc, now>>
       ELSE /\ \E t \in ClockReadings :
                  /\ now' = t
                  /\ bLoc' = [bLoc EXCEPT ![p] = normalized(t)]
            /\ Goto(p, "b_seedOpen")
    /\ UNCHANGED <<bFile, bWritable, sVars, nextId, warned, init>>

\* (not the code) a writeBookings whose path is the file of the support requests
\* as well: the open truncates both
writeBookingsOpenShared(p) ==
    /\ pc[p] \in {"b_wOpen", "b_seedOpen"}
    /\ IF bWritable
       THEN /\ bFile' = fsOpenTrunc
            /\ sFile' = fsOpenTrunc
            /\ Goto(p, IF pc[p] = "b_wOpen" THEN "b_wData" ELSE "b_seedData")
            /\ UNCHANGED bLoc
       ELSE /\ Return(p, "WriteFailure", <<>>, 0)
            /\ bLoc' = [bLoc EXCEPT ![p] = <<>>]
            /\ UNCHANGED <<bFile, sFile>>
    /\ UNCHANGED <<bWritable, sWritable, heap, inMemoryStore, sLoc, sBuf, nextId, now, warned, init>>

\* writeBookings, line 67, first half: fs.writeFile opens the file.  A medium
\* that rejects writes makes it throw, and nothing catches that.
writeBookingsOpen(p) ==
    /\ pc[p] \in {"b_wOpen", "b_seedOpen"}
    /\ IF bWritable
       THEN /\ bFile' = fsOpenTrunc
            /\ Goto(p, IF pc[p] = "b_wOpen" THEN "b_wData" ELSE "b_seedData")
            /\ UNCHANGED bLoc
       ELSE /\ Return(p, "WriteFailure", <<>>, 0)
            /\ bLoc' = [bLoc EXCEPT ![p] = <<>>]
            /\ UNCHANGED bFile
    /\ UNCHANGED <<bWritable, sVars, nextId, now, warned, init>>

\* what the call returns once its write is done
BookingResult(p) ==
    LET c == calls[cur[p]] IN
    CASE c.kind = "createBooking" -> <<bLoc[p][Len(bLoc[p])]>>
      [] c.kind = "updateBooking" -> <<bLoc[p][findIndex(bLoc[p], c.id)]>>
      [] OTHER -> <<>>

\* writeBookings, line 67, second half: the document is written; the call
\* returns (or, in ensureStore, readBookings goes on to fs.readFile).
writeBookingsData(p) ==
    /\ pc[p] \in {"b_wData", "b_seedData"}
    /\ bFile' = fsWrite(bFile, bLoc[p])
    /\ IF pc[p] = "b_seedData"
       THEN /\ Goto(p, "b_read")
            /\ UNCHANGED bLoc
       ELSE /\ Return(p, "ok", BookingResult(p),
                      IF Kind(p) = "seedBookings" THEN Len(bLoc[p]) ELSE 0)
            /\ bLoc' = [bLoc EXCEPT ![p] = <<>>]
    /\ UNCHANGED <<bWritable, sVars, nextId, now, warned, init>>

\* readBookings, lines 62-63, and what the caller does with the array up to
\* its next await: fs.readFile and JSON.parse throw on a missing or torn file.
readBookings(p) ==
    /\ pc[p] = "b_read"
    /\ LET c == calls[cur[p]]
           bookings == bFile.data
       IN
       IF bFile.st # "ok"
       THEN /\ Return(p, IF bFile.st = "torn" THEN "SyntaxError" ELSE "ENOENT", <<>>, 0)
            /\ bLoc' = [bLoc EXCEPT ![p] = <<>>]
            /\ UNCHANGED <<nextId, now>>
       ELSE CASE c.kind = "getBookings" /\ c.arg = NoArg ->
                  /\ Return(p, "ok", bookings, 0)
                  /\ bLoc' = [bLoc EXCEPT ![p] = <<>>]
                  /\ UNCHANGED <<nextId, now>>
              [] c.kind = "getBookings" /\ c.arg # NoArg ->
                  /\ LET filters == c.arg.filters IN
                     IF "upcomingOnly" \in DOMAIN filters /\ filters.upcomingOnly
                     THEN \E t \in ClockReadings :
                             /\ now' = t
                             /\ Return(p, "ok", filterBookings(bookings, filters, isoDate(t)), 0)
                     ELSE /\ Return(p, "ok", filterBookings(bookings, filters, isoDate(now)), 0)
                          /\ UNCHANGED now
                  /\ bLoc' = [bLoc EXCEPT ![p] = <<>>]
                  /\ UNCHANGED nextId
              [] c.kind = "getBookingById" ->
                  /\ Return(p, "ok", findById(bookings, c.id), 0)
                  /\ bLoc' = [bLoc EXCEPT ![p] = <<>>]
                  /\ UNCHANGED <<nextId, now>>
              [] c.kind = "getBookingByConfirmation" ->
                  /\ Return(p, "ok", findByConfirmation(bookings, c.arg.confirmationCode), 0)
                  /\ bLoc' = [bLoc EXCEPT ![p] = <<>>]
                  /\ UNCHANGED <<nextId, now>>
              [] c.kind = "submit_support_request" ->
                  \* analyzeSupportRequest (part_006 lines 98, 139-141) has its
                  \* booking; part_000 lines 103-127 return the resolution found,
                  \* lines 138-145 go on to createSupportRequest
                  /\ IF c.val # <<>>
                     THEN Return(p, "ok", c.val, 0)
                     ELSE /\ calls' = [calls EXCEPT ![cur[p]].arg.stage = "create"]
                          /\ pc' = [pc EXCEPT ![p] = "s_access"]
                          /\ UNCHANGED cur
                  /\ bLoc' = [bLoc EXCEPT ![p] = <<>>]
                  /\ UNCHANGED <<nextId, now>>
              [] c.kind = "getBookingStats" ->
                  /\ \E t \in ClockReadings :
                        /\ now' = t
                        /\ Return(p, "ok", <<bookingStats(bookings, isoDate(t))>>, 0)
                  /\ bLoc' = [bLoc EXCEPT ![p] = <<>>]
                  /\ UNCHANGED nextId
              [] c.kind = "createBooking" ->
                  /\ \E t \in ClockReadings, code \in ConfirmationCodes :
                        /\ now' = t
                        /\ bLoc' = [bLoc EXCEPT ![p] =
                                      Append(bookings, buildBooking(c.arg, nextId, code, t))]
                  /\ nextId' = nextId + 1
                  /\ Goto(p, "b_wOpen")
              [] c.kind = "updateBooking" ->
                  LET index == findIndex(bookings, c.id) IN
                  IF index = 0
                  THEN /\ Return(p, "NotFound", <<>>, 0)
                       /\ bLoc' = [bLoc EXCEPT ![p] = <<>>]
                       /\ UNCHANGED <<nextId, now>>
                  ELSE /\ \E t \in ClockReadings :
                             /\ now' = t
                             /\ bLoc' = [bLoc EXCEPT ![p] =
                                   [bookings EXCEPT ![index] =
                                       mergeBooking(bookings[index], c.arg, t)]]
                       /\ Goto(p, "b_wOpen")
                       /\ UNCHANGED nextId
              [] OTHER ->
                  /\ bLoc' = [bLoc EXCEPT ![p] = filterOut(bookings, c.id)]
                  /\ Goto(p, "b_wOpen")
                  /\ UNCHANGED <<nextId, now>>
    /\ UNCHANGED <<bFile, bWritable, sVars, warned, init>>

\* The deployment makes the medium of bookings.json read-only or writable.
BookingMediumChange ==
    /\ bWritable' = ~bWritable
    /\ UNCHANGED <<bFile, bLoc, sVars, pc, cur, calls, nextId, now, warned, init>>

\* ------------------------------------------------------ support requests
SupportRequestStatus == {"pending", "resolved", "closed"}
OutcomeTitles == {"refund", "upgrade"}

SupportMutations == {"createSupportRequest", "resolveSupportRequest"}
SupportReads == {"getSupportRequests"}
SupportKinds == SupportMutations \cup SupportReads \cup SupportLookups

\* An array is an object: inMemoryStore and the tasks' `requests` hold
\* references, and two references to one array see each other's push.
ObjIds == 1..(NumProcs + 2)

Live(ims, loc) == {ims} \cup {loc[p] : p \in Procs}

\* the array a JSON.parse returns is a new object
NewObj == CHOOSE o \in ObjIds \ Live(inMemoryStore, sLoc) :
              \A o2 \in ObjIds \ Live(inMemoryStore, sLoc) : o <= o2

\* arrays nothing refers to any more are dropped
Collect(h, ims, loc) == [o \in ObjIds |-> IF o \in Live(ims, loc) THEN h[o] ELSE <<>>]

\* (not the code) a create that files the request as closed
buildSupportRequestClosed(input, id, t) ==
    [id |-> id,
     confirmationCode |-> IF "confirmationCode" \in DOMAIN input
                          THEN input.confirmationCode ELSE <<>>,
     status |-> "closed", outcome |-> <<>>, createdAt |-> t, updatedAt |-> t]

\* createSupportRequest, lines 118-129; outcome is a list of at most one, and
\* a confirmationCode the input leaves out is the empty string (no filter of
\* getSupportRequests tells the two apart: an empty filter code is skipped, and
\* a non-empty one equals neither).
buildSupportRequest(input, id, t) ==
    [id |-> id,
     confirmationCode |-> IF "confirmationCode" \in DOMAIN input
                          THEN input.confirmationCode ELSE <<>>,
     status |-> "pending", outcome |-> <<>>, createdAt |-> t, updatedAt |-> t]

\* (not the code) a resolve that stamps createdAt as well
resolvedRestamped(r, title, tResolved, tUpdated) ==
    [r EXCEPT !.status = "resolved",
              !.outcome = <<[title |-> title, resolvedAt |-> tResolved]>>,
              !.createdAt = tUpdated,
              !.updatedAt = tUpdated]

\* resolveSupportRequest, lines 194-202
resolved(r, title, tResolved, tUpdated) ==
    [r EXCEPT !.status = "resolved",
              !.outcome = <<[title |-> title, resolvedAt |-> tResolved]>>,
              !.updatedAt = tUpdated]

\* getSupportRequests, lines 146-165: the callback of requests.filter.  The
\* status filter travels as the set of the statuses asked for.
\* (not the code) a filter that compares the codes as they are written
keepsRequestExactCase(req, filters) ==
    /\ "status" \in DOMAIN filters => req.status \in filters.status
    /\ ("confirmationCode" \in DOMAIN filters /\ filters.confirmationCode # <<>>) =>
          req.confirmationCode = filters.confirmationCode

keepsRequest(req, filters) ==
    /\ "status" \in DOMAIN filters => req.status \in filters.status
    /\ ("confirmationCode" \in DOMAIN filters /\ filters.confirmationCode # <<>>) =>
          toLowerCase(req.confirmationCode) = toLowerCase(filters.confirmationCode)

\* getSupportRequests, lines 142-166, on the array read
filterRequests(requests, filters) ==
    SelectSeq(requests, LAMBDA req : keepsRequest(req, filters))

\* submit_support_request, lines 95-100: the date a request is sorted by,
\* (outcome?.resolvedAt || updatedAt) ?? createdAt
resolvedDate(r) == IF r.outcome # <<>> THEN r.outcome[1].resolvedAt ELSE r.updatedAt

\* submit_support_request, lines 94-101: existing.sort(...)[0] on a list that
\* is not empty.  The sort is descending and stable: its first element is the
\* first of the list that no other is later than.
mostRecentlyResolved(existing) ==
    existing[CHOOSE i \in 1..Len(existing) :
                /\ \A j \in 1..Len(existing) : resolvedDate(existing[j]) <= resolvedDate(existing[i])
                /\ \A j \in 1..(i - 1) : resolvedDate(existing[j]) < resolvedDate(existing[i])]

\* the confirmation codes the tool is called with (its schema wants one
\* character at least)
SubmitCodes == {<<"a", "1">>, <<"Q", "2">>}

\* submit_support_request, lines 76-92: the tool is called; it starts with
\* getSupportRequests.  arg.stage is where the handler is: "lookup" (line 92),
\* "analyze" (lines 104 and 131), "create" (line 138); val holds
\* existingResolved once the lookup has found one with an outcome.
submit_support_request(p) ==
    /\ CanStart(p)
    /\ \E code \in SubmitCodes :
          Start(p, NewCall(p, "submit_support_request", 0,
                           [confirmationCode |-> code, stage |-> "lookup"]),
                "s_access")
    /\ UNCHANGED <<bVars, sVars, nextId, now, warned, init>>

CallSupport(p) ==
    /\ CanStart(p)
    /\ \E c \in
            {NewCall(p, "createSupportRequest", 0, NoArg)}
            \cup {NewCall(p, "resolveSupportRequest", i, [NoArg EXCEPT !.title = o]) :
                    i \in SupportTargets, o \in OutcomeTitles}
            \cup {NewCall(p, "getSupportRequests", 0, NoArg)} :
          Start(p, c, "s_access")
    /\ UNCHANGED <<bVars, sVars, nextId, now, warned, init>>

\* getSupportRequestById and getSupportRequestStats: each starts with
\* readSupportRequests.
CallSupportRead(p) ==
    /\ CanStart(p)
    /\ \E c \in
            {NewCall(p, "getSupportRequestById", i, NoArg) : i \in SupportTargets}
            \cup {NewCall(p, "getSupportRequestStats", 0, NoArg)} :
          Start(p, c, "s_access")
    /\ UNCHANGED <<bVars, sVars, nextId, now, warned, init>>

\* Where a task goes when ensureStore has settled.  On the write path the
\* caller then evaluates JSON.stringify(requests) and calls fs.writeFile.
AfterEnsure(p, reading) ==
    /\ Goto(p, IF reading THEN "s_read" ELSE "s_wOpen")
    /\ sBuf' = [sBuf EXCEPT ![p] = IF reading THEN <<>> ELSE heap[sLoc[p]]]

\* ensureStore, lines 60-61: fs.access
supportEnsureStore(p) ==
    /\ pc[p] \in {"s_access", "s_wAccess"}
    /\ IF sFile.st # "missing"
       THEN AfterEnsure(p, pc[p] = "s_access")
       ELSE /\ Goto(p, IF pc[p] = "s_access" THEN "s_ensOpen" ELSE "s_wEnsOpen")
            /\ UNCHANGED sBuf
    /\ UNCHANGED <<bVars, sFile, sWritable, heap, inMemoryStore, sLoc, nextId, now, warned, init>>

\* ensureStore, lines 63-71: mkdir and the open of fs.writeFile; a failure is
\* caught and logged.
supportEnsureStoreOpen(p) ==
    /\ pc[p] \in {"s_ensOpen", "s_wEnsOpen"}
    /\ IF sWritable
       THEN /\ sFile' = fsOpenTrunc
            /\ Goto(p, IF pc[p] = "s_ensOpen" THEN "s_ensData" ELSE "s_wEnsData")
            /\ UNCHANGED <<sBuf, warned>>
       ELSE /\ warned' = [warned EXCEPT !.write = @ + 1]
            /\ AfterEnsure(p, pc[p] = "s_ensOpen")
            /\ UNCHANGED sFile
    /\ UNCHANGED <<bVars, sWritable, heap, inMemoryStore, sLoc, nextId, now, init>>

\* ensureStore, line 66: the document [] is written.
supportEnsureStoreData(p) ==
    /\ pc[p] \in {"s_ensData", "s_wEnsData"}
    /\ sFile' = fsWrite(sFile, <<>>)
    /\ AfterEnsure(p, pc[p] = "s_ensData")
    /\ UNCHANGED <<bVars, sWritable, heap, inMemoryStore, sLoc, nextId, now, warned, init>>

\* readSupportRequests, lines 81-90, and what the caller does with the array
\* up to its next await.
readSupportRequests(p) ==
    /\ pc[p] = "s_read"
    /\ LET c == calls[cur[p]]
           fromFile == sFile.st = "ok"
           requests == IF fromFile THEN NewObj ELSE inMemoryStore
           ims == requests
           h0 == IF fromFile THEN [heap EXCEPT ![requests] = sFile.data] ELSE heap
           loc1 == [sLoc EXCEPT ![p] = requests]
           loc0 == [sLoc EXCEPT ![p] = 0]
           index == findIndex(h0[requests], c.id)
       IN
       /\ inMemoryStore' = ims
       /\ warned' = IF fromFile THEN warned ELSE [warned EXCEPT !.read = @ + 1]
       /\ CASE c.kind \in SupportReads \cup SupportLookups ->
                 /\ Return(p, "ok",
                           CASE c.kind = "getSupportRequestById" -> findById(h0[requests], c.id)
                             [] c.kind = "getSupportRequestStats" -> <<supportStats(h0[requests])>>
                             [] OTHER -> h0[requests],
                           0)
                 /\ sLoc' = loc0
                 /\ heap' = Collect(h0, ims, loc0)
                 /\ UNCHANGED <<nextId, now>>
            [] c.kind = "submit_support_request" /\ c.arg.stage = "lookup" ->
                 \* part_000 lines 90-102; analyzeSupportRequest comes next
                 LET existing == filterRequests(h0[requests],
                                     [confirmationCode |-> c.arg.confirmationCode,
                                      status |-> {"resolved"}])
                     existingResolved == IF existing = <<>> THEN <<>>
                                         ELSE <<mostRecentlyResolved(existing)>>
                 IN
                 /\ calls' = [calls EXCEPT
                        ![cur[p]].val = IF existingResolved # <<>> /\ existingResolved[1].outcome # <<>>
                                        THEN existingResolved ELSE <<>>,
                        ![cur[p]].arg.stage = "analyze"]
                 /\ pc' = [pc EXCEPT ![p] = "b_access"]
                 /\ sLoc' = loc0
                 /\ heap' = Collect(h0, ims, loc0)
                 /\ UNCHANGED <<cur, nextId, now>>
            [] \/ c.kind = "createSupportRequest"
               \/ c.kind = "submit_support_request" /\ c.arg.stage = "create" ->
                 /\ \E t \in ClockReadings :
                      LET record == buildSupportRequest(c.arg, nextId, t) IN
                       /\ now' = t
                       /\ heap' = Collect([h0 EXCEPT ![requests] = Append(@, record)], ims, loc1)
                       /\ calls' = [calls EXCEPT ![cur[p]].val = <<record>>]
                 /\ nextId' = nextId + 1
                 /\ sLoc' = loc1
                 /\ pc' = [pc EXCEPT ![p] = "s_wAccess"]
                 /\ UNCHANGED cur
            [] OTHER ->
                 IF index = 0
                 THEN /\ Return(p, "NotFound", <<>>, 0)
                      /\ sLoc' = loc0
                      /\ heap' = Collect(h0, ims, loc0)
                      /\ UNCHANGED <<nextId, now>>
                 ELSE /\ \E t1 \in ClockReadings :
                         \E t2 \in {t1} \cup (IF t1 < MaxClock THEN {t1 + 1} ELSE {}) :
                           LET updated == resolved(h0[requests][index], c.arg.title, t1, t2) IN
                           /\ now' = t2
                           /\ heap' = Collect([h0 EXCEPT ![requests][index] = updated], ims, loc1)
                           /\ calls' = [calls EXCEPT ![cur[p]].val = <<updated>>]
                      /\ sLoc' = loc1
                      /\ pc' = [pc EXCEPT ![p] = "s_wAccess"]
                      /\ UNCHANGED <<cur, nextId>>
    /\ UNCHANGED <<bVars, sFile, sWritable, sBuf, init>>

\* (not the code) a writeSupportRequests that waits until the medium accepts
\* the write
writeSupportRequestsOpenWaits(p) ==
    /\ pc[p] = "s_wOpen"
    /\ sWritable
    /\ sFile' = fsOpenTrunc
    /\ Goto(p, "s_wData")
    /\ UNCHANGED <<heap, inMemoryStore, sLoc, sBuf, warned>>
    /\ UNCHANGED <<bVars, sWritable, nextId, now, init>>

\* writeSupportRequests, lines 96 and 99-103: the open of fs.writeFile; a
\* failure is caught, logged, and the array becomes inMemoryStore.
writeSupportRequestsOpen(p) ==
    /\ pc[p] = "s_wOpen"
    /\ IF sWritable
       THEN /\ sFile' = fsOpenTrunc
            /\ Goto(p, "s_wData")
            /\ UNCHANGED <<heap, inMemoryStore, sLoc, sBuf, warned>>
       ELSE /\ warned' = [warned EXCEPT !.write = @ + 1]
            /\ inMemoryStore' = sLoc[p]
            /\ sLoc' = [sLoc EXCEPT ![p] = 0]
            /\ sBuf' = [sBuf EXCEPT ![p] = <<>>]
            /\ heap' = Collect(heap, sLoc[p], sLoc')
            /\ Return(p, "ok", calls[cur[p]].val, 0)
            /\ UNCHANGED sFile
    /\ UNCHANGED <<bVars, sWritable, nextId, now, init>>

\* writeSupportRequests, lines 96-98: the document is written, the array
\* becomes inMemoryStore, the call returns.
writeSupportRequestsData(p) ==
    /\ pc[p] = "s_wData"
    /\ sFile' = fsWrite(sFile, sBuf[p])
    /\ inMemoryStore' = sLoc[p]
    /\ sLoc' = [sLoc EXCEPT ![p] = 0]
    /\ sBuf' = [sBuf EXCEPT ![p] = <<>>]
    /\ heap' = Collect(heap, sLoc[p], sLoc')
    /\ Return(p, "ok", calls[cur[p]].val, 0)
    /\ UNCHANGED <<bVars, sWritable, nextId, now, warned, init>>

\* The deployment makes the medium of support-requests.json read-only or writable.
SupportMediumChange ==
    /\ sWritable' = ~sWritable
    /\ UNCHANGED <<bVars, sFile, heap, inMemoryStore, sLoc, sBuf,
                   pc, cur, calls, nextId, now, warned, init>>

\* --------------------------------------------------------- specification
\* a support request stored by an earlier run of the process
oldRequest ==
    [id |-> 3, confirmationCode |-> <<"A", "1">>, status |-> "pending", outcome |-> <<>>,
     createdAt |-> 0, updatedAt |-> 0]

InitTasks ==
    /\ bLoc = [p \in Procs |-> <<>>]
    /\ heap = [o \in ObjIds |-> <<>>]
    /\ inMemoryStore = 1
    /\ sLoc = [p \in Procs |-> 0]
    /\ sBuf = [p \in Procs |-> <<>>]
    /\ pc = [p \in Procs |-> "idle"]
    /\ cur = [p \in Procs |-> 0]
    /\ calls = <<>>
    /\ nextId = FirstNewId
    /\ now = 0
    /\ warned = [write |-> 0, read |-> 0]
    /\ init = [b |-> bFile, s |-> sFile]

BookingInit ==
    /\ bFile \in {NoFile, OkFile(normalized(0))}
    /\ bWritable \in BOOLEAN
    /\ sFile = NoFile
    /\ sWritable = TRUE
    /\ InitTasks

SupportInit ==
    /\ bFile = NoFile
    /\ bWritable = TRUE
    /\ sFile \in {NoFile, OkFile(<<>>), OkFile(<<oldRequest>>)}
    /\ sWritable \in BOOLEAN
    /\ InitTasks

BookingStep ==
    \E p \in Procs :
        \/ CallBooking(p)
        \/ CallSeedBookings(p)
        \/ ensureStore(p)
        \/ readBookings(p)
        \/ writeBookingsOpen(p)
        \/ writeBookingsData(p)

SupportStep ==
    \E p \in Procs :
        \/ CallSupport(p)
        \/ supportEnsureStore(p)
        \/ supportEnsureStoreOpen(p)
        \/ supportEnsureStoreData(p)
        \/ readSupportRequests(p)
        \/ writeSupportRequestsOpen(p)
        \/ writeSupportRequestsData(p)

BookingNext == BookingStep \/ BookingMediumChange
SupportNext == SupportStep \/ SupportMediumChange

\* the bookings collection alone, and the support requests alone
BookingSpec == BookingInit /\ [][BookingNext]_vars
SupportSpec == SupportInit /\ [][SupportNext]_vars

\* The process is killed and started again: the tasks and the module's memory
\* are gone, the files are what they were.
Crash ==
    /\ \E p \in Procs : pc[p] # "idle"
    /\ calls' = [i \in 1..Len(calls) |->
                    IF calls[i].st = "run" THEN [calls[i] EXCEPT !.st = "killed"] ELSE calls[i]]
    /\ pc' = [p \in Procs |-> "idle"]
    /\ cur' = [p \in Procs |-> 0]
    /\ bLoc' = [p \in Procs |-> <<>>]
    /\ heap' = [o \in ObjIds |-> <<>>]
    /\ inMemoryStore' = 1
    /\ sLoc' = [p \in Procs |-> 0]
    /\ sBuf' = [p \in Procs |-> <<>>]
    /\ UNCHANGED <<bFile, bWritable, sFile, sWritable, nextId, now, warned, init>>

BookingCrashNext == BookingNext \/ Crash
BookingCrashSpec == BookingInit /\ [][BookingCrashNext]_vars

\* Both collections on a medium that rejects every write: no open of
\* fs.writeFile succeeds, so no write of a document is ever enabled.
ReadOnlyInit ==
    /\ bFile \in {NoFile, OkFile(normalized(0))}
    /\ bWritable = FALSE
    /\ sFile \in {NoFile, OkFile(<<oldRequest>>)}
    /\ sWritable = FALSE
    /\ InitTasks

ReadOnlyNext ==
    \E p \in Procs :
        \/ CallBooking(p)
        \/ CallSeedBookings(p)
        \/ ensureStore(p)
        \/ readBookings(p)
        \/ writeBookingsOpen(p)
        \/ CallSupport(p)
        \/ supportEnsureStore(p)
        \/ supportEnsureStoreOpen(p)
        \/ readSupportRequests(p)
        \/ writeSupportRequestsOpen(p)

ReadOnlySpec == ReadOnlyInit /\ [][ReadOnlyNext]_vars

\* The calls on the bookings arrive one at a time, each after the one before
\* has returned (a caller that awaits every call).
SerialBookingStep ==
    \E p \in Procs :
        \/ (\A q \in Procs : pc[q] = "idle") /\ CallBooking(p)
        \/ (\A q \in Procs : pc[q] = "idle") /\ CallSeedBookings(p)
        \/ ensureStore(p)
        \/ readBookings(p)
        \/ writeBookingsOpen(p)
        \/ writeBookingsData(p)

SerialBookingNext == SerialBookingStep \/ BookingMediumChange
SerialBookingSpec == BookingInit /\ [][SerialBookingNext]_vars

\* The medium accepts every write and stays so (durable mode).
DurableBookingInit == BookingInit /\ bWritable
DurableBookingSpec == DurableBookingInit /\ [][SerialBookingStep]_vars

\* Support requests on a writable medium, the calls overlapping as they may.
DurableSupportInit == SupportInit /\ sWritable
DurableSupportSpec == DurableSupportInit /\ [][SupportStep]_vars

\* support-requests.json holds a document JSON.parse rejects when the process
\* starts: what a killed writer leaves behind (the file exists, so ensureStore
\* has nothing to create).
MalformedInit ==
    /\ bFile = NoFile
    /\ bWritable = TRUE
    /\ sFile = fsOpenTrunc
    /\ sWritable \in BOOLEAN
    /\ InitTasks

MalformedNext ==
    \/ \E p \in Procs :
         \/ CallSupport(p)
         \/ supportEnsureStore(p)
         \/ readSupportRequests(p)
         \/ writeSupportRequestsOpen(p)
         \/ writeSupportRequestsData(p)
    \/ SupportMediumChange

MalformedSpec == MalformedInit /\ [][MalformedNext]_vars

\* bookings.json as the reads find it: missing, the seed, or the seed and a
\* booking created later whose code came out equal to a stored one.
ReadInit ==
    /\ bFile \in {NoFile, OkFile(normalized(0)),
                   OkFile(Append(normalized(0),
                                 buildBooking([guestName |-> <<"B">>, checkIn |-> 1,
                                               checkOut |-> 2, status |-> "confirmed"],
                                              3, <<"A", "1">>, 1)))}
    /\ bWritable = TRUE
    /\ sFile = NoFile
    /\ sWritable = TRUE
    /\ InitTasks

\* Only reads of the bookings arrive (the first may have to seed the file).
ReadNext ==
    \E p \in Procs :
        \/ CallBookingRead(p)
        \/ ensureStore(p)
        \/ readBookings(p)
        \/ writeBookingsOpen(p)
        \/ writeBookingsData(p)

ReadSpec == ReadInit /\ [][ReadNext]_vars

\* The reads arriving one at a time, each after the one before has returned.
SerialReadNext ==
    \E p \in Procs :
        \/ (\A q \in Procs : pc[q] = "idle") /\ CallBookingRead(p)
        \/ ensureStore(p)
        \/ readBookings(p)
        \/ writeBookingsOpen(p)
        \/ writeBookingsData(p)

SerialReadSpec == ReadInit /\ [][SerialReadNext]_vars

\* Both collections in one process.
StoreInit ==
    /\ bFile \in {NoFile, OkFile(normalized(0))}
    /\ bWritable \in BOOLEAN
    /\ sFile \in {NoFile, OkFile(<<oldRequest>>)}
    /\ sWritable \in BOOLEAN
    /\ InitTasks

StoreNext == BookingNext \/ SupportNext
StoreSpec == StoreInit /\ [][StoreNext]_vars

\* Both collections, every exported function, the calls arriving one at a
\* time, each after the one before has returned.
NoneRunning == \A q \in Procs : pc[q] = "idle"

SerialStoreStep ==
    \E p \in Procs :
        \/ NoneRunning /\ CallBooking(p)
        \/ NoneRunning /\ CallSeedBookings(p)
        \/ NoneRunning /\ CallBookingRead(p)
        \/ NoneRunning /\ CallSupport(p)
        \/ NoneRunning /\ CallSupportRead(p)
        \/ ensureStore(p)
        \/ readBookings(p)
        \/ writeBookingsOpen(p)
        \/ writeBookingsData(p)
        \/ supportEnsureStore(p)
        \/ supportEnsureStoreOpen(p)
        \/ supportEnsureStoreData(p)
        \/ readSupportRequests(p)
        \/ writeSupportRequestsOpen(p)
        \/ writeSupportRequestsData(p)

SerialStoreNext == SerialStoreStep \/ BookingMediumChange \/ SupportMediumChange
SerialStoreSpec == StoreInit /\ [][SerialStoreNext]_vars

\* The same on a medium that accepts every write and stays so.
DurableStoreInit == StoreInit /\ bWritable /\ sWritable
DurableStoreSpec == DurableStoreInit /\ [][SerialStoreStep]_vars

\* The tool submit_support_request next to the functions of the support
\* requests, the calls one at a time on a medium that accepts every write.
\* The collection starts missing, with the pending request, or with two
\* resolved requests of one confirmation code (written in two cases), the
\* later resolved one last or first; their stamps lie before this run's clock.
storedResolved(id, code, created, at) ==
    resolved([oldRequest EXCEPT !.id = id, !.confirmationCode = code,
                                !.createdAt = created, !.updatedAt = created],
             "refund", at, at)

SubmitInit ==
    /\ bFile \in {NoFile, OkFile(normalized(0))}
    /\ bWritable = TRUE
    /\ sFile \in {NoFile, OkFile(<<oldRequest>>),
                  OkFile(<<storedResolved(1, <<"a", "1">>, -2, -1),
                           storedResolved(2, <<"A", "1">>, -1, 0)>>),
                  OkFile(<<storedResolved(1, <<"a", "1">>, -2, 0),
                           storedResolved(2, <<"A", "1">>, -1, -1)>>)}
    /\ sWritable = TRUE
    /\ InitTasks

SubmitStep ==
    \E p \in Procs :
        \/ NoneRunning /\ submit_support_request(p)
        \/ NoneRunning /\ CallSupport(p)
        \/ ensureStore(p)
        \/ readBookings(p)
        \/ writeBookingsOpen(p)
        \/ writeBookingsData(p)
        \/ supportEnsureStore(p)
        \/ supportEnsureStoreOpen(p)
        \/ supportEnsureStoreData(p)
        \/ readSupportRequests(p)
        \/ writeSupportRequestsOpen(p)
        \/ writeSupportRequestsData(p)

SubmitSpec == SubmitInit /\ [][SubmitStep]_vars

\* ------------------------------------------------- serial reference
\* What the calls that returned amount to when they run one at a time.
Idle == \A p \in Procs : pc[p] = "idle"

CallIds == 1..Len(calls)

Orders(S) ==
    {f \in [1..Cardinality(S) -> S] : \A a, b \in 1..Cardinality(S) : a # b => f[a] # f[b]}

\* the bookings after call c has run alone on the bookings s; seedBookings
\* stamps with the reading t, the other calls' stamps are in what they returned
ApplyBooking(s, c, t) ==
    IF c.st # "ok" THEN s
    ELSE CASE c.kind = "createBooking" -> Append(s, c.val[1])
           [] c.kind = "updateBooking" ->
                 IF findIndex(s, c.id) = 0 THEN s
                 ELSE [s EXCEPT ![findIndex(s, c.id)] =
                         mergeBooking(@, c.arg, c.val[1].updatedAt)]
           [] c.kind = "deleteBooking" -> filterOut(s, c.id)
           [] c.kind = "seedBookings" -> normalized(t)
           [] OTHER -> s

RECURSIVE ApplyBookings(_, _, _, _)
ApplyBookings(s, order, k, t) ==
    IF k > Len(order) THEN s
    ELSE ApplyBookings(ApplyBooking(s, calls[order[k]], t), order, k + 1, t)

\* the snapshots the run may have started from: the file, or the implicit seed
BookingBases ==
    IF init.b.st = "ok" THEN {init.b.data} ELSE {normalized(t) : t \in 0..MaxClock}

SerialBookings(S) ==
    {ApplyBookings(base, order, 1, t) :
        base \in BookingBases, order \in Orders(S), t \in 0..MaxClock}

\* ------------------------------------------------------------ claims
\* C1 (no lost update): when the bookings file held initialCount records and
\* N >= 1 createBooking calls, and no other call, have all returned, the
\* collection holds exactly initialCount + N records.
C1_NoLostUpdate ==
    ( /\ Idle
      /\ init.b.st = "ok"
      /\ Len(calls) >= 1
      /\ \A i \in CallIds : calls[i].kind = "createBooking" /\ calls[i].st = "ok" )
    => /\ bFile.st = "ok"
       /\ Len(bFile.data) = Len(init.b.data) + Len(calls)

\* The tasks that run a mutation and are between the load of the snapshot
\* (for seed: the start) and the end of the store of the next one.
BookingWindow == {"b_wOpen", "b_wData", "b_seedOpen", "b_seedData"}
SupportWindow == {"s_wAccess", "s_wEnsOpen", "s_wEnsData", "s_wOpen", "s_wData"}
InWindow(W) == {p \in Procs : pc[p] \in W}

\* C2 (mutual exclusion): per collection, at most one mutation is between its
\* load and its store.
C2_MutualExclusion ==
    /\ Cardinality(InWindow(BookingWindow)) <= 1
    /\ Cardinality(InWindow(SupportWindow)) <= 1

\* C3 (serializability): once all calls on the bookings have returned, the
\* committed snapshot is what the calls that returned produce when applied one
\* at a time in some order.
C3_Serializable ==
    (Idle /\ bFile.st = "ok") => bFile.data \in SerialBookings(CallIds)

\* C4 (FIFO): a mutation that has loaded the collection finds every mutation
\* on that collection that arrived before it already returned.
C4_Fifo ==
    \A i, j \in CallIds :
        ( /\ i < j
          /\ calls[i].kind \in BookingMutations
          /\ calls[j].kind \in BookingMutations \ {"seedBookings"}
          /\ calls[j].st = "run"
          /\ pc[calls[j].proc] \in {"b_wOpen", "b_wData"} )
        => calls[i].st # "run"

\* sequential runs: no call arrived while another was running
Sequential == \A i \in CallIds : calls[i].alone

Elems(d) == {d[k] : k \in 1..Len(d)}

\* C5 (atomic durability): whenever no write is in progress, also after the
\* process was killed in the middle of one, each file holds a complete
\* document.
C5_AtomicDurability ==
    Idle => (bFile.st # "torn" /\ sFile.st # "torn")

\* C6 (no torn reads): no read fails on a file that a write in progress has
\* left incomplete.
C6_NoTornReads ==
    \A i \in CallIds :
        calls[i].kind \in BookingReads \cup SupportReads
        => calls[i].st \notin {"SyntaxError", "ENOENT"}

\* The committed snapshot of the support requests: what readSupportRequests
\* returns when it runs now, alone.
SupportView ==
    IF sFile.st = "ok" THEN sFile.data
    ELSE IF sFile.st = "missing" /\ sWritable THEN <<>>
    ELSE heap[inMemoryStore]

\* task p returns from a call of one of the kinds K in this step
ReturnsLast(p, K) == cur[p] # 0 /\ cur'[p] = 0 /\ calls[cur[p]].kind \in K

\* C7 (all or nothing): a mutation that returns its result has committed the
\* next snapshot, and one that throws has left the committed one as it was.
C7_AllOrNothing ==
    [][\A p \in Procs :
          /\ ReturnsLast(p, SupportMutations) =>
                IF calls'[cur[p]].st = "ok"
                THEN calls'[cur[p]].val[1] \in Elems(SupportView')
                ELSE SupportView' = SupportView
          /\ ReturnsLast(p, BookingMutations) =>
                IF calls'[cur[p]].st = "ok"
                THEN /\ bFile'.st = "ok"
                     /\ calls'[cur[p]].val \in {<<>>} \cup {<<r>> : r \in Elems(bFile'.data)}
                ELSE bFile' = bFile
      ]_vars

ReadsOf(kind) ==
    CASE kind \in BookingMutations -> BookingReads
      [] kind \in SupportMutations -> SupportReads
      [] OTHER -> {}

\* C8 (commit before return): a list that starts after a mutation has returned,
\* with nothing else in between, holds the record created or updated and does
\* not hold the record deleted.
C8_CommitBeforeReturn ==
    \A i, j \in CallIds :
        ( /\ j = i + 1
          /\ calls[i].alone /\ calls[j].alone
          /\ calls[i].st = "ok" /\ calls[j].st = "ok"
          /\ calls[j].kind \in ReadsOf(calls[i].kind) )
        => /\ calls[i].val # <<>> => calls[i].val[1] \in Elems(calls[j].val)
           /\ calls[i].kind = "deleteBooking" =>
                 \A r \in Elems(calls[j].val) : r.id # calls[i].id

\* the support requests after call c has run alone on the requests s
ApplySupport(s, c) ==
    IF c.st # "ok" THEN s
    ELSE CASE c.kind = "createSupportRequest" -> Append(s, c.val[1])
           [] c.kind = "resolveSupportRequest" ->
                 IF findIndex(s, c.id) = 0 THEN s
                 ELSE [s EXCEPT ![findIndex(s, c.id)] = c.val[1]]
           [] c.kind = "submit_support_request" ->
                 IF \E k \in 1..Len(s) : s[k].id = c.val[1].id THEN s ELSE Append(s, c.val[1])
           [] OTHER -> s

RECURSIVE ApplySupports(_, _)
ApplySupports(s, k) ==
    IF k = 0 THEN s ELSE ApplySupport(ApplySupports(s, k - 1), calls[k])

\* what a list returns in durable mode after the calls 1..k, run in this order
DurableBookings(k) ==
    {ApplyBookings(base, [x \in 1..k |-> x], 1, t) : base \in BookingBases, t \in 0..MaxClock}
DurableSupports(k) == ApplySupports(IF init.s.st = "ok" THEN init.s.data ELSE <<>>, k)

\* C9 (fallback transparency): on a medium that rejects every write no call
\* fails for that, and the lists of a sequential run are those of durable mode.
C9_FallbackTransparency ==
    /\ \A i \in CallIds : calls[i].st \in {"run", "ok", "NotFound"}
    /\ Sequential =>
          \A j \in CallIds :
              /\ (calls[j].kind \in BookingReads /\ calls[j].st = "ok")
                    => calls[j].val \in DurableBookings(j - 1)
              /\ (calls[j].kind \in SupportReads /\ calls[j].st = "ok")
                    => calls[j].val = DurableSupports(j - 1)

\* task p calls fs.readFile or fs.writeFile on support-requests.json in this step
TouchesSupportFile(p) ==
    /\ pc[p] \in {"s_read", "s_ensOpen", "s_wEnsOpen", "s_wOpen"}
    /\ pc'[p] # pc[p]

\* C10 (sticky fallback): a call that arrives after a write of the support
\* requests has failed neither reads nor writes the file.
C10_StickyFallback ==
    [][\A p \in Procs :
          (cur[p] # 0 /\ calls[cur[p]].fallback) => ~TouchesSupportFile(p)]_vars

\* C11 (write failures are not surfaced): no mutating call, on either
\* collection, ends with the error of a rejected write; the call returns its
\* normal result.
C11_WriteFailureNotSurfaced ==
    \A i \in CallIds :
        calls[i].kind \in BookingMutations \cup SupportMutations
            => calls[i].st # "WriteFailure"

\* C12 (a malformed snapshot is fatal): when the snapshot of a collection did
\* not parse at the start, every call on that collection that has ended ended
\* with the parse error, and the file is still the one found.
C12_MalformedFatal ==
    /\ init.s.st = "torn" =>
          /\ sFile = init.s
          /\ \A i \in CallIds :
                calls[i].kind \in SupportKinds => calls[i].st \in {"run", "SyntaxError"}
    /\ init.b.st = "torn" =>
          /\ bFile = init.b
          /\ \A i \in CallIds :
                calls[i].kind \in BookingKinds => calls[i].st \in {"run", "SyntaxError"}

\* ------------------------------------------------------------ the routes
\* app/api/bookings/route.ts, PUT, lines 84-95: whatever updateBooking throws
\* is answered with status 404.
bookingsPUT(st) == IF st = "ok" THEN 200 ELSE 404

\* app/api/bookings/route.ts, DELETE, lines 97-101: no try/catch, so an error
\* of deleteBooking is the framework's 500.
bookingsDELETE(st) == IF st = "ok" THEN 200 ELSE 500

\* app/api/support-requests/route.ts, POST, lines 60-79: a ZodError is
\* answered with 400, any other error with 500.
supportRequestsPOST(st) ==
    IF st = "ok" THEN 200 ELSE IF st = "ZodError" THEN 400 ELSE 500

LastCall == calls[Len(calls)]

\* the last call ran alone after every other call had returned
RanLast(kind) ==
    /\ Sequential
    /\ Idle
    /\ Len(calls) > 0
    /\ LastCall.kind = kind

HasId(s, id) == \E r \in Elems(s) : r.id = id

\* C13 (idempotent delete): in a sequential run on a writable medium a
\* deleteBooking returns without error (DELETE answers 200); when no booking
\* had the id, or when the call before it was a deleteBooking of the same id,
\* the collection is the one the call found.
C13_IdempotentDelete ==
    RanLast("deleteBooking") =>
        LET k == Len(calls)
            c == LastCall
            absent == \A b \in DurableBookings(k - 1) : ~HasId(b, c.id)
            twice == /\ k >= 2
                     /\ calls[k - 1].kind = "deleteBooking"
                     /\ calls[k - 1].id = c.id
        IN
        /\ c.st = "ok"
        /\ bookingsDELETE(c.st) = 200
        /\ bFile.st = "ok"
        /\ (absent \/ twice) => bFile.data \in DurableBookings(k - 1)
        /\ (absent /\ k >= 2 /\ calls[k - 1].kind = "getBookings")
              => bFile.data = calls[k - 1].val

\* two deletes of the same stored booking, one after the other
C13_Witness ==
    /\ RanLast("deleteBooking")
    /\ Len(calls) = 2
    /\ calls[1].kind = "deleteBooking" /\ calls[1].id = 1 /\ calls[1].st = "ok"
    /\ calls[2].id = 1 /\ calls[2].st = "ok"
    /\ bFile.st = "ok"
    /\ ~HasId(bFile.data, 1)
    /\ HasId(init.b.data, 1)

\* task p, running a call of this kind, passes its load in this step, and the
\* snapshot it loads has no record with the id it was given
LoadsWithoutId(p, kind, file) ==
    /\ cur[p] # 0
    /\ Kind(p) = kind
    /\ pc[p] # pc'[p]
    /\ file.st = "ok"
    /\ ~HasId(file.data, calls[cur[p]].id)

\* C14 (update of an absent id): an updateBooking whose load finds no booking
\* with the id throws NotFound at once (PUT answers 404): the call is over
\* without a write and bookings.json is as it was.
C14_UpdateNotFound ==
    [][\A p \in Procs :
          (pc[p] = "b_read" /\ LoadsWithoutId(p, "updateBooking", bFile)) =>
              /\ pc'[p] = "idle"
              /\ calls'[cur[p]].st = "NotFound"
              /\ bookingsPUT(calls'[cur[p]].st) = 404
              /\ calls'[cur[p]].val = <<>>
              /\ bFile' = bFile]_vars

\* an update of an id no booking has was refused, the file being the initial one
C14_Witness ==
    /\ Idle
    /\ \E i \in CallIds :
          /\ calls[i].kind = "updateBooking"
          /\ calls[i].st = "NotFound"
          /\ ~HasId(bFile.data, calls[i].id)
    /\ bFile.st = "ok"
    /\ bFile = init.b

\* C15 (resolve of an absent id): in a sequential run on a writable medium a
\* resolveSupportRequest for an id no request has throws NotFound, the POST
\* route answers it with 404, and the collection is the one the call found.
C15_ResolveNotFound ==
    (RanLast("resolveSupportRequest")
        /\ ~HasId(DurableSupports(Len(calls) - 1), LastCall.id)) =>
            /\ LastCall.st = "NotFound"
            /\ SupportView = DurableSupports(Len(calls) - 1)
            /\ supportRequestsPOST(LastCall.st) = 404

\* the record with this id in the requests s (the first, as findIndex finds it)
RecordOf(s, id) == s[findIndex(s, id)]

\* C16 (resolve needs a pending request): in a sequential run on a writable
\* medium a resolveSupportRequest for a request that is no longer pending
\* throws InvalidState, and the collection is the one the call found.
C16_ResolveInvalidState ==
    (RanLast("resolveSupportRequest")
        /\ HasId(DurableSupports(Len(calls) - 1), LastCall.id)
        /\ RecordOf(DurableSupports(Len(calls) - 1), LastCall.id).status # "pending") =>
            /\ LastCall.st = "InvalidState"
            /\ SupportView = DurableSupports(Len(calls) - 1)

\* the resolveSupportRequest calls that have returned a resolved record
Resolves == {i \in CallIds : calls[i].kind = "resolveSupportRequest" /\ calls[i].st = "ok"}

\* C17 (outcome is write-once): whenever support-requests.json holds a complete
\* document and no call is running, the outcome of a request is the one every
\* resolveSupportRequest that returned for it has returned.
C17_OutcomeWriteOnce ==
    (Idle /\ sFile.st = "ok") =>
        \A i \in Resolves :
            /\ HasId(sFile.data, calls[i].id)
            /\ RecordOf(sFile.data, calls[i].id).outcome = calls[i].val[1].outcome

\* C18 (status monotonicity): once a resolveSupportRequest has returned for a
\* request, no complete document of support-requests.json shows the request
\* as pending.
C18_StatusMonotonic ==
    sFile.st = "ok" =>
        \A i \in Resolves :
            \A r \in Elems(sFile.data) : r.id = calls[i].id => r.status # "pending"

UniqueIds(s) == \A a, b \in 1..Len(s) : s[a].id = s[b].id => a = b

\* C19 (id uniqueness): no two records of a complete bookings.json, of a
\* complete support-requests.json or of the in-memory store share an id.
C19_IdUnique ==
    /\ bFile.st = "ok" => UniqueIds(bFile.data)
    /\ sFile.st = "ok" => UniqueIds(sFile.data)
    /\ UniqueIds(heap[inMemoryStore])

\* both files hold a created record next to the ones they started with
C19_Witness ==
    /\ Idle
    /\ bFile.st = "ok" /\ Len(bFile.data) > Len(seedBookingsData)
    /\ HasId(bFile.data, FirstNewId)
    /\ sFile.st = "ok" /\ Len(sFile.data) >= 2
    /\ heap[inMemoryStore] = sFile.data

SameIdentity(a, b) ==
    /\ a.id = b.id
    /\ a.confirmationCode = b.confirmationCode
    /\ a.createdAt = b.createdAt

SameIdentities(s, u) ==
    /\ Len(s) = Len(u)
    /\ \A k \in 1..Len(s) : SameIdentity(s[k], u[k])

\* C20 (immutable identity fields): in a sequential run, the array an
\* updateBooking is about to write has, record by record, the id,
\* confirmationCode and createdAt of the file it loaded; after the call the
\* file has those of the collection before the call, and the booking
\* returned has those of the booking named.
C20_IdentityFieldsFrozen ==
    /\ \A p \in Procs :
          (Sequential /\ cur[p] = Len(calls) /\ cur[p] # 0
              /\ Kind(p) = "updateBooking" /\ pc[p] = "b_wOpen") =>
                /\ bFile.st = "ok"
                /\ SameIdentities(bFile.data, bLoc[p])
    /\ (RanLast("updateBooking") /\ bFile.st = "ok") =>
          \E before \in DurableBookings(Len(calls) - 1) :
              /\ SameIdentities(before, bFile.data)
              /\ LastCall.st = "ok" =>
                    /\ LastCall.val # <<>>
                    /\ HasId(before, LastCall.id)
                    /\ SameIdentity(LastCall.val[1], RecordOf(before, LastCall.id))

\* an update of a stored booking, sent with id, confirmationCode and createdAt
\* among its keys or not, has been written
C20_Witness ==
    /\ RanLast("updateBooking")
    /\ LastCall.st = "ok"
    /\ LastCall.id = 1
    /\ bFile.st = "ok"
    /\ RecordOf(bFile.data, 1).status = "cancelled"
    /\ RecordOf(bFile.data, 1).confirmationCode = seedBookingsData[1].confirmationCode

\* the updateBooking calls that have returned an updated booking
Updates == {i \in CallIds : calls[i].kind = "updateBooking" /\ calls[i].st = "ok"}

\* C21 (updatedAt is monotone): a complete document never shows a record
\* with an updatedAt below the one an update or resolve of that record has
\* returned (seedBookings, which replaces the records, set aside); and in a
\* sequential run the updatedAt an update or resolve
\* returns lies strictly above the one the record had.
C21_UpdatedAtMonotone ==
    /\ (bFile.st = "ok" /\ \A j \in CallIds : calls[j].kind # "seedBookings") =>
          \A i \in Updates : \A r \in Elems(bFile.data) :
              r.id = calls[i].id => r.updatedAt >= calls[i].val[1].updatedAt
    /\ sFile.st = "ok" =>
          \A i \in Resolves : \A r \in Elems(sFile.data) :
              r.id = calls[i].id => r.updatedAt >= calls[i].val[1].updatedAt
    /\ (RanLast("updateBooking") /\ LastCall.st = "ok") =>
          \A b \in DurableBookings(Len(calls) - 1) :
              HasId(b, LastCall.id) =>
                  LastCall.val[1].updatedAt > RecordOf(b, LastCall.id).updatedAt
    /\ (RanLast("resolveSupportRequest") /\ LastCall.st = "ok"
            /\ HasId(DurableSupports(Len(calls) - 1), LastCall.id)) =>
          LastCall.val[1].updatedAt
              > RecordOf(DurableSupports(Len(calls) - 1), LastCall.id).updatedAt

\* C22 (create postcondition): in a sequential run on a writable medium
\* createBooking returns one record whose id no stored booking has, with
\* createdAt = updatedAt, the payload's status or pending, the payload's
\* trimmed name and a generated code, and bookings.json is then the former
\* collection with that record appended; createSupportRequest returns a
\* pending record without outcome, appended in the same way.
C22_CreatePostcondition ==
    /\ RanLast("createBooking") =>
          LET c == LastCall
              before == DurableBookings(Len(calls) - 1)
          IN
          /\ c.st = "ok"
          /\ Len(c.val) = 1
          /\ \A b \in before : ~HasId(b, c.val[1].id)
          /\ c.val[1].createdAt = c.val[1].updatedAt
          /\ c.val[1].status = (IF c.arg.status = NoStatus THEN "pending" ELSE c.arg.status)
          /\ c.val[1].guestName = trim(c.arg.guestName)
          /\ c.val[1].confirmationCode \in ConfirmationCodes
          /\ bFile.st = "ok"
          /\ \E b \in before : bFile.data = Append(b, c.val[1])
    /\ RanLast("createSupportRequest") =>
          LET c == LastCall
              before == DurableSupports(Len(calls) - 1)
          IN
          /\ c.st = "ok"
          /\ Len(c.val) = 1
          /\ ~HasId(before, c.val[1].id)
          /\ c.val[1].createdAt = c.val[1].updatedAt
          /\ c.val[1].status = "pending"
          /\ c.val[1].outcome = <<>>
          /\ sFile.st = "ok"
          /\ sFile.data = Append(before, c.val[1])

\* a support request, then a booking without status, have been created
C22_Witness ==
    /\ RanLast("createBooking")
    /\ Len(calls) = 2
    /\ calls[1].kind = "createSupportRequest" /\ calls[1].st = "ok"
    /\ sFile.st = "ok" /\ sFile.data # <<>>
    /\ sFile.data[Len(sFile.data)] = calls[1].val[1]
    /\ LastCall.st = "ok"
    /\ LastCall.arg.status = NoStatus
    /\ bFile.data[Len(bFile.data)].status = "pending"

\* C23 (seed replaces the collection atomically): when a seedBookings has
\* returned and no call is running, seedBookings returned the number of seed
\* records and bookings.json is what the calls that returned give in one of
\* the orders they can be put in.
C23_SeedAtomic ==
    (Idle /\ \E i \in CallIds : calls[i].kind = "seedBookings" /\ calls[i].st = "ok") =>
        /\ \A i \in CallIds :
              (calls[i].kind = "seedBookings" /\ calls[i].st = "ok")
                  => calls[i].n = Len(seedBookingsData)
        /\ bFile.st = "ok"
        /\ bFile.data \in SerialBookings(CallIds)


\* C24 (implicit creation on first access): the first call of a run on a
\* collection whose file does not exist does not fail: it ends with its result
\* or with NotFound for an id the initial snapshot does not hold, and a list
\* returns the initial snapshot (the seed set, stamped; no support request).
C24_ImplicitCreation ==
    \A i \in CallIds :
        /\ ( /\ init.b.st = "missing"
             /\ calls[i].kind \in BookingKinds \ {"seedBookings"}
             /\ \A j \in 1..(i - 1) : calls[j].kind \notin BookingKinds )
           => /\ calls[i].st \in {"run", "ok", "NotFound"}
              /\ (calls[i].kind = "getBookings" /\ calls[i].arg = NoArg /\ calls[i].st = "ok")
                    => calls[i].val \in {normalized(t) : t \in 0..MaxClock}
        /\ ( /\ init.s.st = "missing"
             /\ calls[i].kind \in SupportKinds
             /\ \A j \in 1..(i - 1) : calls[j].kind \notin SupportKinds )
           => /\ calls[i].st \in {"run", "ok", "NotFound"}
              /\ (calls[i].kind = "getSupportRequests" /\ calls[i].st = "ok")
                    => calls[i].val = <<>>


\* The predicates of a filter, as the contract of getBookings words them:
\* the status is in the given set, the guest name contains the given one (both
\* trimmed, letter case aside), the confirmation code equals the given one
\* (letter case aside), the stay does not end before today.
StatusMatches(b, f) == b.status \in f.status
NameMatches(b, f) ==
    LET have == toLowerCase(trim(b.guestName))
        want == toLowerCase(trim(f.guestName))
    IN \E i \in 0..Len(have) : \E j \in i..Len(have) : SubSeq(have, i + 1, j) = want
CodeMatches(b, f) ==
    /\ Len(b.confirmationCode) = Len(f.confirmationCode)
    /\ \A i \in 1..Len(b.confirmationCode) :
          lowerChar(b.confirmationCode[i]) = lowerChar(f.confirmationCode[i])
Upcoming(b, today) == b.checkOut >= today

\* every predicate whose key the filter carries
SatisfiesSupplied(b, f, today) ==
    /\ "status" \in DOMAIN f => StatusMatches(b, f)
    /\ "guestName" \in DOMAIN f => NameMatches(b, f)
    /\ "confirmationCode" \in DOMAIN f => CodeMatches(b, f)
    /\ ("upcomingOnly" \in DOMAIN f /\ f.upcomingOnly) => Upcoming(b, today)

\* the same, a confirmation code counting as supplied when it is not empty
SatisfiesNonEmpty(b, f, today) ==
    /\ "status" \in DOMAIN f => StatusMatches(b, f)
    /\ "guestName" \in DOMAIN f => NameMatches(b, f)
    /\ ("confirmationCode" \in DOMAIN f /\ f.confirmationCode # <<>>) => CodeMatches(b, f)
    /\ ("upcomingOnly" \in DOMAIN f /\ f.upcomingOnly) => Upcoming(b, today)

\* the records of the snapshot a filter selects, in snapshot order
SelectedSupplied(snapshot, f, today) ==
    LET Test(b) == SatisfiesSupplied(b, f, today) IN SelectSeq(snapshot, Test)
SelectedNonEmpty(snapshot, f, today) ==
    LET Test(b) == SatisfiesNonEmpty(b, f, today) IN SelectSeq(snapshot, Test)

\* C25 (filter correctness) as stated: a getBookings that returns returns
\* exactly the records of the snapshot that satisfy every predicate whose key
\* the filter carries, in snapshot order, and the whole snapshot when it has no
\* filter.
C25_FilterExact ==
    [][\A p \in Procs :
          (ReturnsLast(p, {"getBookings"}) /\ calls'[cur[p]].st = "ok") =>
              calls'[cur[p]].val =
                  IF calls[cur[p]].arg = NoArg THEN bFile.data
                  ELSE SelectedSupplied(bFile.data, calls[cur[p]].arg.filters, isoDate(now'))
      ]_vars

\* C25 amended: the same, a confirmationCode predicate applying only when the
\* code given is not the empty string (an empty code selects like no code).
C25_FilterNonEmpty ==
    [][\A p \in Procs :
          (ReturnsLast(p, {"getBookings"}) /\ calls'[cur[p]].st = "ok") =>
              calls'[cur[p]].val =
                  IF calls[cur[p]].arg = NoArg THEN bFile.data
                  ELSE SelectedNonEmpty(bFile.data, calls[cur[p]].arg.filters, isoDate(now'))
      ]_vars

\* a filter with two predicates has selected some records of a snapshot and
\* left others out, and an empty confirmation code has been given
C25_Witness ==
    /\ bFile.st = "ok"
    /\ \E i, j \in CallIds :
          /\ calls[i].kind = "getBookings" /\ calls[i].st = "ok"
          /\ calls[i].arg # NoArg
          /\ calls[i].arg.filters = [status |-> {"confirmed"}, upcomingOnly |-> TRUE]
          /\ calls[i].val # <<>>
          /\ Len(calls[i].val) < Len(bFile.data)
          /\ calls[j].kind = "getBookings" /\ calls[j].st = "ok"
          /\ calls[j].arg # NoArg
          /\ "confirmationCode" \in DOMAIN calls[j].arg.filters
          /\ calls[j].arg.filters.confirmationCode = <<>>


\* the filter of a call of getBookings asks for the confirmation code and for
\* nothing else
CodeOnly(c) ==
    /\ c.kind = "getBookings" /\ c.arg # NoArg
    /\ "confirmationCode" \in DOMAIN c.arg.filters
    /\ DOMAIN c.arg.filters \cap {"status", "guestName"} = {}
    /\ "upcomingOnly" \in DOMAIN c.arg.filters => ~c.arg.filters.upcomingOnly

\* C26 (lookup by confirmation code is the filter over the list): on one
\* snapshot, getBookingByConfirmation(c) returns a booking exactly when
\* getBookings({confirmationCode: c}) is not empty, and it is the first
\* booking of that list.
C26_LookupIsFilter ==
    \A i, j \in CallIds :
        ( /\ calls[i].kind = "getBookingByConfirmation" /\ calls[i].st = "ok"
          /\ CodeOnly(calls[j]) /\ calls[j].st = "ok"
          /\ calls[j].arg.filters.confirmationCode = calls[i].arg.confirmationCode )
        => calls[i].val = IF calls[j].val = <<>> THEN <<>> ELSE <<calls[j].val[1]>>


\* task p, running a call of one of the kinds K that found the file of its
\* collection existing, takes this step
StepsOn(p, K) ==
    /\ cur[p] # 0
    /\ calls[cur[p]].kind \in K
    /\ calls[cur[p]].found
    /\ pc'[p] # pc[p]

Continue(p) ==
    \/ ensureStore(p)
    \/ readBookings(p)
    \/ writeBookingsOpen(p)
    \/ writeBookingsData(p)
    \/ supportEnsureStore(p)
    \/ supportEnsureStoreOpen(p)
    \/ supportEnsureStoreData(p)
    \/ readSupportRequests(p)
    \/ writeSupportRequestsOpen(p)
    \/ writeSupportRequestsData(p)

\* task p runs a mutation of one of the kinds K
Mutating(p, K) == cur[p] # 0 /\ calls[cur[p]].kind \in K

\* C28 (collection independence): no step of a mutation of the bookings
\* changes the file, the arrays or the fallback array of the support requests,
\* no step of a mutation of the support requests changes the file of the
\* bookings, and a mutation that runs while a mutation of the other collection
\* is in flight can always take its next step.
C28_Independent ==
    /\ [][\A p \in Procs :
             /\ (Mutating(p, BookingMutations) /\ pc'[p] # pc[p]) =>
                   /\ sFile' = sFile
                   /\ heap' = heap
                   /\ inMemoryStore' = inMemoryStore
             /\ (Mutating(p, SupportMutations) /\ pc'[p] # pc[p]) =>
                   bFile' = bFile
        ]_vars
    /\ [](\A p, q \in Procs :
             ( \/ Mutating(p, BookingMutations) /\ Mutating(q, SupportMutations)
               \/ Mutating(p, SupportMutations) /\ Mutating(q, BookingMutations) )
             => ENABLED Continue(p))

\* a mutation of the support requests has arrived while one of the bookings
\* was running, and both have committed
C28_Witness ==
    /\ Len(calls) = 2
    /\ calls[1].kind = "createBooking" /\ calls[1].st = "ok"
    /\ calls[2].kind = "resolveSupportRequest" /\ calls[2].st = "ok"
    /\ ~calls[2].alone
    /\ bFile.st = "ok" /\ calls[1].val[1] \in Elems(bFile.data)
    /\ sFile.st = "ok" /\ calls[2].val[1] \in Elems(sFile.data)


\* Both collections on a medium that stays as it is, under a fair event loop:
\* a continuation that is ready (its awaited file-system call has settled) is
\* run after finitely many others.  Nothing obliges a caller to call.
FairStoreNext == BookingStep \/ SupportStep
FairStoreSpec ==
    StoreInit /\ [][FairStoreNext]_vars /\ \A p \in Procs : WF_vars(Continue(p))

\* C29 (run to completion): under fair scheduling every call that has arrived
\* returns or throws, so every task that runs a call becomes free again and
\* no later call is kept waiting.
C29_RunToCompletion ==
    \A p \in Procs :
        (pc[p] # "idle") ~> (pc[p] = "idle" /\ \A i \in CallIds : calls[i].proc = p => calls[i].st # "run")

\* two mutations of one collection have overlapped: the first has returned or
\* thrown, and the one that arrived while it ran has returned as well
C29_Witness ==
    /\ Len(calls) = 2
    /\ ~calls[2].alone
    /\ \/ {calls[1].kind, calls[2].kind} \subseteq BookingMutations
       \/ {calls[1].kind, calls[2].kind} \subseteq SupportMutations
    /\ calls[1].st # "run"
    /\ calls[2].st = "ok"
    /\ Idle


\* some task other than p runs a mutation of one of the kinds K
InFlight(p, K) == \E q \in Procs \ {p} : Mutating(q, K)

\* the records of the calls that have not returned yet
Uncommitted == {calls[i].val[1] : i \in {k \in CallIds : calls[k].st = "run" /\ calls[k].val # <<>>}}

\* C30 (readers never wait for writers): a list of a collection whose file
\* existed when it arrived, ending while a mutation of that collection is in
\* flight, returns the latest committed snapshot: the document in the file,
\* and no record of a call that has not returned.
C30_ReadersSeeCommitted ==
    [][\A p \in Procs :
          /\ ( /\ ReturnsLast(p, BookingReads) /\ calls[cur[p]].found
                /\ InFlight(p, BookingMutations) ) =>
                /\ calls'[cur[p]].st = "ok"
                /\ bFile.st = "ok" /\ calls'[cur[p]].val = bFile.data
          /\ ( /\ ReturnsLast(p, SupportReads) /\ calls[cur[p]].found
                /\ InFlight(p, SupportMutations) ) =>
                /\ calls'[cur[p]].st = "ok"
                /\ sFile.st = "ok" => calls'[cur[p]].val = sFile.data
                /\ Elems(calls'[cur[p]].val) \cap Uncommitted = {}
      ]_vars


\* The records of a collection in the order they were created: the records of
\* the seed set and of the earlier run carry the ids 1, 2 and 3 in their
\* order, and randomUUID hands out the later ids in the order of the creates.
InCreationOrder(s) == \A a, b \in 1..Len(s) : a < b => s[a].id < s[b].id

\* C31 (insertion order is preserved): after any calls, overlapping or not,
\* the records of every snapshot (the two files, the fallback array and the
\* arrays the running calls hold) stand in the order they were created.
C31_InsertionOrder ==
    /\ InCreationOrder(bFile.data)
    /\ InCreationOrder(sFile.data)
    /\ \A o \in ObjIds : InCreationOrder(heap[o])
    /\ \A p \in Procs : InCreationOrder(bLoc[p])
    /\ \A i \in CallIds :
          calls[i].kind \in BookingReads \cup SupportReads => InCreationOrder(calls[i].val)

\* a booking has been created and a booking of the seed set deleted, and the
\* file holds the remaining seed booking before the new one
C31_Witness ==
    /\ \E i \in CallIds : calls[i].kind = "createBooking" /\ calls[i].st = "ok"
    /\ \E i \in CallIds : calls[i].kind = "deleteBooking" /\ calls[i].st = "ok" /\ calls[i].id = 1
    /\ bFile.st = "ok"
    /\ Len(bFile.data) = 2
    /\ bFile.data[1].id = 2
    /\ bFile.data[2].id = FirstNewId


\* C32 (effect of resolve): in a sequential run on a writable medium a
\* resolveSupportRequest that returns for a pending request returns that
\* record with status resolved, the outcome given stamped with the time of
\* the call, an updatedAt not before that stamp nor before the former
\* updatedAt, and every other field as it was; the collection is then the
\* former one with that record in the place of the pending one.
C32_ResolveEffect ==
    LET c == LastCall
        before == DurableSupports(Len(calls) - 1)
    IN
    ( /\ RanLast("resolveSupportRequest")
      /\ c.st = "ok"
      /\ HasId(before, c.id)
      /\ RecordOf(before, c.id).status = "pending" )
    => LET old == RecordOf(before, c.id)
           new == c.val[1]
       IN
       /\ new.status = "resolved"
       /\ Len(new.outcome) = 1
       /\ new.outcome[1].title = c.arg.title
       /\ new.outcome[1].resolvedAt >= old.updatedAt
       /\ new.updatedAt >= new.outcome[1].resolvedAt
       /\ new.updatedAt <= now
       /\ DOMAIN new = DOMAIN old
       /\ \A f \in DOMAIN old \ {"status", "outcome", "updatedAt"} : new[f] = old[f]
       /\ sFile.st = "ok"
       /\ sFile.data = [before EXCEPT ![findIndex(before, c.id)] = new]
       /\ SupportView = sFile.data

\* a request has been created and then the older, pending request resolved:
\* the collection holds the resolved record before the untouched new one
C32_Witness ==
    /\ RanLast("resolveSupportRequest")
    /\ Len(calls) = 2
    /\ calls[1].kind = "createSupportRequest" /\ calls[1].st = "ok"
    /\ LastCall.st = "ok" /\ LastCall.id = 3
    /\ init.s.st = "ok"
    /\ sFile.st = "ok" /\ Len(sFile.data) = 2
    /\ sFile.data[1].status = "resolved"
    /\ sFile.data[2] = calls[1].val[1]


\* the bookings s without the records of this id, the others in their order
WithoutId(s, id) == LET Other(r) == r.id # id IN SelectSeq(s, Other)

\* C33 (effect of update and delete): in a sequential run on a writable
\* medium an updateBooking that returns returns the booking of that id with
\* the fields given set as given, an updatedAt of the time of the call, not
\* before the former one, and every other field as it was, and the collection
\* is the former one with that booking in the place of the old; after a
\* deleteBooking that returns the collection is the former one without the
\* booking of that id, the other bookings as they were.
C33_UpdateDeleteEffect ==
    LET c == LastCall
        before == DurableBookings(Len(calls) - 1)
    IN
    /\ (RanLast("updateBooking") /\ c.st = "ok") =>
          \E b \in before :
              /\ HasId(b, c.id)
              /\ LET old == RecordOf(b, c.id)
                     new == c.val[1]
                 IN
                 /\ DOMAIN new = DOMAIN old
                 /\ \A f \in DOMAIN c.arg : new[f] = c.arg[f]
                 /\ new.updatedAt >= old.updatedAt /\ new.updatedAt <= now
                 /\ \A f \in DOMAIN old \ (DOMAIN c.arg \cup {"updatedAt"}) : new[f] = old[f]
                 /\ bFile.st = "ok"
                 /\ Len(bFile.data) = Len(b)
                 /\ bFile.data = [b EXCEPT ![findIndex(b, c.id)] = new]
    /\ (RanLast("deleteBooking") /\ c.st = "ok") =>
          \E b \in before :
              /\ bFile.st = "ok"
              /\ bFile.data = WithoutId(b, c.id)
              /\ Len(bFile.data) = Len(b) - (IF HasId(b, c.id) THEN 1 ELSE 0)

\* booking 1 has been cancelled by an update and then deleted: the file holds
\* the other seed booking alone
C33_Witness ==
    /\ RanLast("deleteBooking")
    /\ Len(calls) = 2
    /\ calls[1].kind = "updateBooking" /\ calls[1].st = "ok"
    /\ calls[1].id = 1 /\ calls[1].val[1].status = "cancelled"
    /\ LastCall.st = "ok" /\ LastCall.id = 1
    /\ bFile.st = "ok"
    /\ Len(bFile.data) = 1 /\ bFile.data[1].id = 2


\* the number of records of s whose status is st
CountOf(s, st) == Cardinality({i \in 1..Len(s) : s[i].status = st})

\* the array readSupportRequests hands to its caller now
SupportLoaded == IF sFile.st = "ok" THEN sFile.data ELSE heap[inMemoryStore]

\* C34 (stats agree with the snapshot): the summary a getBookingStats or a
\* getSupportRequestStats returns has total equal to the number of records of
\* the snapshot it loaded, under each status the number of records of that
\* status, and counts that add up to total.
C34_StatsAgree ==
    [][\A p \in Procs :
          /\ (ReturnsLast(p, {"getBookingStats"}) /\ calls'[cur[p]].st = "ok") =>
                LET stats == calls'[cur[p]].val[1] IN
                /\ stats.total = Len(bFile.data)
                /\ \A st \in BookingStatus : stats[st] = CountOf(bFile.data, st)
                /\ stats.pending + stats.confirmed + stats.checked_in
                      + stats.checked_out + stats.cancelled = stats.total
          /\ (ReturnsLast(p, {"getSupportRequestStats"}) /\ calls'[cur[p]].st = "ok") =>
                LET stats == calls'[cur[p]].val[1] IN
                /\ stats.total = Len(SupportLoaded)
                /\ \A st \in SupportRequestStatus : stats[st] = CountOf(SupportLoaded, st)
                /\ stats.pending + stats.resolved + stats.closed = stats.total
      ]_vars

\* the stats of the bookings have been taken after a booking was cancelled:
\* they count two bookings, one cancelled and one pending
C34_Witness ==
    /\ Len(calls) = 2
    /\ calls[1].kind = "updateBooking" /\ calls[1].st = "ok"
    /\ calls[2].kind = "getBookingStats" /\ calls[2].st = "ok"
    /\ calls[2].val[1].total = 2
    /\ calls[2].val[1].cancelled = 1
    /\ calls[2].val[1].pending = 1


\* C35 (one warning per transition into fallback): on a medium that rejects
\* every write, however many calls run, the write-failure warning of the
\* support requests is logged at most once.
C35_WarnOnce ==
    warned.write <= 1


\* C36 (no resurrection): once a deleteBooking of a booking of the initial
\* collection has returned, with whatever create, update or delete calls in
\* flight meanwhile (no seedBookings, which puts the seed set back),
\* bookings.json, from which every later read returns, holds no booking of
\* that id.
C36_NoResurrection ==
    (bFile.st = "ok" /\ \A j \in CallIds : calls[j].kind # "seedBookings") =>
        \A i \in CallIds :
            (calls[i].kind = "deleteBooking" /\ calls[i].st = "ok" /\ calls[i].id < FirstNewId)
                => ~HasId(bFile.data, calls[i].id)


\* the tasks that found bookings.json missing and are writing the seed set
Seeders == {p \in Procs : pc[p] \in {"b_seedOpen", "b_seedData"}}

\* the bookings completed createBooking calls have returned and the file holds
Kept(file) ==
    {calls[i].val[1] : i \in {k \in CallIds : calls[k].kind = "createBooking"
                                               /\ calls[k].st = "ok"
                                               /\ file.st = "ok"
                                               /\ calls[k].val[1] \in Elems(file.data)}}

\* C37 (implicit seeding never destroys committed data): of the calls that
\* arrive while bookings.json is missing at most one writes the seed set, and
\* no step of that write takes a booking a completed createBooking has
\* returned out of the file.
C37_SeedKeepsCommitted ==
    /\ [](Cardinality(Seeders) <= 1)
    /\ [][\A p \in Seeders : pc'[p] # pc[p] => Kept(bFile) \subseteq Kept(bFile')]_vars


\* C38 (the mirror equals the file in durable mode): whenever no call is
\* running, no write of the support requests has failed, a mutation has
\* returned and support-requests.json holds a complete document,
\* inMemoryStore holds the records of that document.
C38_MirrorEqualsFile ==
    ( /\ Idle
      /\ warned.write = 0
      /\ sFile.st = "ok"
      /\ \E i \in CallIds : calls[i].kind \in SupportMutations /\ calls[i].st = "ok" )
    => heap[inMemoryStore] = sFile.data


\* a record has an outcome exactly when it is not pending
OutcomeAgrees(r) == (r.outcome # <<>>) <=> (r.status # "pending")

\* C39 (status and outcome agree): when the collection started empty (no
\* file, or a file with no request), every record of support-requests.json,
\* of the fallback array, of the arrays running calls hold and of every list
\* returned has an outcome exactly when its status is not pending.
C39_StatusOutcomeAgree ==
    init.s.data = <<>> =>
        /\ \A r \in Elems(sFile.data) : OutcomeAgrees(r)
        /\ \A o \in ObjIds : \A r \in Elems(heap[o]) : OutcomeAgrees(r)
        /\ \A p \in Procs : \A r \in Elems(sBuf[p]) : OutcomeAgrees(r)
        /\ \A i \in CallIds :
              calls[i].kind \in SupportMutations \cup SupportReads =>
                  \A r \in Elems(calls[i].val) : OutcomeAgrees(r)

\* from an empty collection a request has been created and then resolved: the
\* file holds it as resolved, with its outcome
C39_Witness ==
    /\ init.s.data = <<>>
    /\ Len(calls) = 2
    /\ calls[1].kind = "createSupportRequest" /\ calls[1].st = "ok"
    /\ calls[2].kind = "resolveSupportRequest" /\ calls[2].st = "ok"
    /\ sFile.st = "ok" /\ Len(sFile.data) = 1
    /\ sFile.data[1].status = "resolved"
    /\ sFile.data[1].outcome # <<>>


\* the resolved requests of s that have an outcome and the confirmation code
\* of call c, letter case set aside
Resolutions(s, c) ==
    {r \in Elems(s) : r.status = "resolved" /\ r.outcome # <<>> /\ CodeMatches(r, c.arg)}

\* C40 (submit creates at most one record, none when a resolution exists): in
\* a sequential run on a writable medium a call of submit_support_request
\* returns; when the collection held resolved requests with an outcome for its
\* confirmation code, compared without regard to letter case, it returns one
\* of them that none was resolved later than and the collection is as it was;
\* otherwise the collection is the former one with one new pending request
\* of that code at its end, and the call returns that request.
C40_SubmitOnce ==
    LET c == LastCall
        before == DurableSupports(Len(calls) - 1)
        found == Resolutions(before, c)
    IN
    RanLast("submit_support_request")
    => /\ c.st = "ok"
       /\ Len(c.val) = 1
       /\ sFile.st = "ok"
       /\ IF found # {}
          THEN /\ c.val[1] \in found
               /\ \A r \in found : r.outcome[1].resolvedAt <= c.val[1].outcome[1].resolvedAt
               /\ sFile.data = before
          ELSE /\ sFile.data = Append(before, c.val[1])
               /\ ~HasId(before, c.val[1].id)
               /\ c.val[1].status = "pending"
               /\ c.val[1].outcome = <<>>
               /\ c.val[1].confirmationCode = c.arg.confirmationCode

\* the pending request of code "A1" has been resolved, then the tool was
\* called with the code "a1": it returned that resolution and the collection
\* holds the one record as before
C40_Witness ==
    /\ RanLast("submit_support_request")
    /\ Len(calls) = 2
    /\ init.s = OkFile(<<oldRequest>>)
    /\ calls[1].kind = "resolveSupportRequest" /\ calls[1].st = "ok"
    /\ LastCall.st = "ok"
    /\ LastCall.arg.confirmationCode = <<"a", "1">>
    /\ LastCall.val = calls[1].val
    /\ sFile.data = calls[1].val

====
